---- MODULE Spec2Model ----
(***************************************************************************)
(* Model of the report scripts of llm-benchmarking-suite:                  *)
(*   scripts/create_index.py        (Index Builder)                        *)
(*   scripts/generate_comparison.py (Comparison Builder)                   *)
(* Strings are modelled as sequences of one-character strings so that      *)
(* split, join, isdigit, strptime, strftime and float are computed         *)
(* character by character, as the library computes them.                   *)
(***************************************************************************)
EXTENDS Integers, Sequences, FiniteSets, TLC

\* ---------------------------------------------------------------- bounds
\* largest number of *.html entries of html/ in one run
MaxFiles == 2
\* largest number of entries of csv/, and of json/, in one run
MaxResultFiles == 2
\* largest number of rows handed to extract_metrics on its own
MaxRows == 3

\* ------------------------------------------------------------ characters
Digits == <<"0", "1", "2", "3", "4", "5", "6", "7", "8", "9">>

IsDigitChar(c) == \E i \in 1..10 : Digits[i] = c

DigitVal(c) == (CHOOSE i \in 1..10 : Digits[i] = c) - 1

\* code-point order of the characters that occur in the modelled strings
CharOrder ==
    <<"-", "0", "1", "2", "3", "4", "5", "6", "7", "8", "9", ":", "_",
      "a", "b", "c", "d", "e", "f", "g", "h", "i", "j", "k", "l", "m",
      "n", "o", "p", "q", "r", "s", "t", "u", "v", "w", "x", "y", "z">>

Ord(c) == CHOOSE i \in 1..Len(CharOrder) : CharOrder[i] = c

\* Python's str < str: lexicographic by code point, a proper prefix is smaller
RECURSIVE StrLess(_, _)
StrLess(a, b) ==
    IF b = <<>> THEN FALSE
    ELSE IF a = <<>> THEN TRUE
    ELSE IF Head(a) = Head(b) THEN StrLess(Tail(a), Tail(b))
    ELSE Ord(Head(a)) < Ord(Head(b))

\* str.isdigit(): non-empty and every character a digit
IsDigit(s) == Len(s) > 0 /\ \A i \in 1..Len(s) : IsDigitChar(s[i])

\* str.replace(c, ''): every occurrence of the character removed
Replace(s, c) == SelectSeq(s, LAMBDA x : x # c)

\* c in s
Contains(s, c) == \E i \in 1..Len(s) : s[i] = c

\* str.split(sep) for a one-character separator: the pieces between the
\* separators, empty pieces kept, always at least one piece
RECURSIVE SplitFrom(_, _, _)
SplitFrom(s, sep, cur) ==
    IF s = <<>> THEN <<cur>>
    ELSE IF Head(s) = sep THEN <<cur>> \o SplitFrom(Tail(s), sep, <<>>)
    ELSE SplitFrom(Tail(s), sep, Append(cur, Head(s)))

Split(s, sep) == SplitFrom(s, sep, <<>>)

\* sep.join(parts)
RECURSIVE Join(_, _)
Join(parts, sep) ==
    IF parts = <<>> THEN <<>>
    ELSE IF Len(parts) = 1 THEN parts[1]
    ELSE parts[1] \o <<sep>> \o Join(Tail(parts), sep)

\* the decimal value of a string of digits
RECURSIVE DecValue(_)
DecValue(s) ==
    IF s = <<>> THEN 0
    ELSE 10 * DecValue(SubSeq(s, 1, Len(s) - 1)) + DigitVal(s[Len(s)])

\* the decimal digits of n, zero-filled to at least w characters
RECURSIVE Pad(_, _)
Pad(n, w) ==
    IF n < 10 /\ w <= 1 THEN <<Digits[n + 1]>>
    ELSE Pad(n \div 10, w - 1) \o <<Digits[(n % 10) + 1]>>

\* str(n) of a natural number
RECURSIVE Decimal(_)
Decimal(n) ==
    IF n < 10 THEN <<Digits[n + 1]>>
    ELSE Decimal(n \div 10) \o <<Digits[(n % 10) + 1]>>

\* str(n) of an integer
IntStr(n) == IF n < 0 THEN <<"-">> \o Decimal(-n) ELSE Decimal(n)

\* ------------------------------------------------------------- datetime
IsLeap(y) == (y % 4 = 0) /\ ((y % 100 # 0) \/ (y % 400 = 0))

DaysInMonth(y, m) ==
    IF m = 2 THEN (IF IsLeap(y) THEN 29 ELSE 28)
    ELSE IF m \in {4, 6, 9, 11} THEN 30 ELSE 31

\* datetime(year, month, day, hour, minute, second)
DateTime(y, m, d, hh, mm, ss) ==
    [year |-> y, month |-> m, day |-> d, hour |-> hh, minute |-> mm, second |-> ss]

\* datetime < datetime
DtLess(a, b) ==
    LET ta == <<a.year, a.month, a.day, a.hour, a.minute, a.second>>
        tb == <<b.year, b.month, b.day, b.hour, b.minute, b.second>>
    IN  \E i \in 1..6 : ta[i] < tb[i] /\ \A j \in 1..(i - 1) : ta[j] = tb[j]

\* datetime.fromtimestamp(ts) for whole seconds since the epoch, in a local
\* zone without offset: the proleptic Gregorian date of the day number and
\* the time of day of the remainder
fromtimestamp(ts) ==
    LET days == ts \div 86400
        rem  == ts % 86400
        z    == days + 719468
        era  == z \div 146097
        doe  == z - era * 146097
        yoe  == (doe - doe \div 1460 + doe \div 36524 - doe \div 146096) \div 365
        doy  == doe - (365 * yoe + yoe \div 4 - yoe \div 100)
        mp   == (5 * doy + 2) \div 153
        d    == doy - (153 * mp + 2) \div 5 + 1
        m    == IF mp < 10 THEN mp + 3 ELSE mp - 9
        y    == yoe + era * 400 + (IF m <= 2 THEN 1 ELSE 0)
    IN  DateTime(y, m, d, rem \div 3600, (rem % 3600) \div 60, rem % 60)

\* date.toordinal() up to a constant: the number of the day in the
\* proleptic Gregorian calendar, counted from 1970-01-01
DayNumber(y, m, d) ==
    LET yy  == IF m <= 2 THEN y - 1 ELSE y
        era == yy \div 400
        yoe == yy - era * 400
        mp  == IF m > 2 THEN m - 3 ELSE m + 9
        doy == (153 * mp + 2) \div 5 + d - 1
        doe == yoe * 365 + yoe \div 4 - yoe \div 100 + doy
    IN  era * 146097 + doe - 719468

\* (a - b).days of two datetimes: the whole days of the difference, rounded
\* down (a timedelta keeps 0 <= seconds < 86400)
TimedeltaDays(a, b) ==
    LET Seconds(t) == DayNumber(t.year, t.month, t.day) * 86400 + t.hour * 3600
                          + t.minute * 60 + t.second
        diff       == Seconds(a) - Seconds(b)
    IN  IF diff >= 0 THEN diff \div 86400 ELSE -((-diff + 86399) \div 86400)

\* one %m or %d field of strptime's regular expression at position p:
\* the two-digit alternatives, then the one-digit alternative [1-9]
FieldMatches(s, p, n, hi) ==
    /\ p + n - 1 <= Len(s)
    /\ \A i \in p..(p + n - 1) : IsDigitChar(s[i])
    /\ LET v == DecValue(SubSeq(s, p, p + n - 1))
       IN  /\ v >= 1
           /\ v <= hi
           /\ (n = 1 => s[p] # "0")

\* datetime.strptime(s, '%Y' + sep + '%m' + sep + '%d') with sep '' or '-':
\* [ok |-> FALSE] stands for ValueError.  The regular expression is
\* (\d\d\d\d) sep (1[0-2]|0[1-9]|[1-9]) sep (3[01]|[12]\d|0[1-9]|[1-9]);
\* the first match in the expression's order of alternatives is taken, text
\* left over after it and a day the month does not have are ValueErrors.
strptime(s, sep) ==
    LET w    == Len(sep)
        bad  == [ok |-> FALSE, dt |-> DateTime(0, 0, 0, 0, 0, 0)]
        SepAt(p) == p + w - 1 <= Len(s) /\ SubSeq(s, p, p + w - 1) = sep
        yOK  == Len(s) >= 4 /\ \A i \in 1..4 : IsDigitChar(s[i])
        mAt  == 5 + w
        try  == <<<<2, 2>>, <<2, 1>>, <<1, 2>>, <<1, 1>>>>
        Fits(k) ==
            LET lm == try[k][1]
                ld == try[k][2]
            IN  /\ SepAt(5)
                /\ FieldMatches(s, mAt, lm, 12)
                /\ SepAt(mAt + lm)
                /\ FieldMatches(s, mAt + lm + w, ld, 31)
    IN  IF ~yOK \/ ~(\E k \in 1..4 : Fits(k)) THEN bad
        ELSE LET k  == CHOOSE k \in 1..4 : Fits(k) /\ \A j \in 1..(k - 1) : ~Fits(j)
                 lm == try[k][1]
                 ld == try[k][2]
                 y  == DecValue(SubSeq(s, 1, 4))
                 m  == DecValue(SubSeq(s, mAt, mAt + lm - 1))
                 d  == DecValue(SubSeq(s, mAt + lm + w, mAt + lm + w + ld - 1))
                 e  == mAt + lm + w + ld - 1
             IN  IF e # Len(s) \/ y < 1 \/ d > DaysInMonth(y, m) THEN bad
                 ELSE [ok |-> TRUE, dt |-> DateTime(y, m, d, 0, 0, 0)]

\* date_obj.strftime('%Y-%m-%d')
strftime_date(dt) ==
    Pad(dt.year, 4) \o <<"-">> \o Pad(dt.month, 2) \o <<"-">> \o Pad(dt.day, 2)

\* last_modified.strftime('%H:%M')
strftime_hm(dt) == Pad(dt.hour, 2) \o <<":">> \o Pad(dt.minute, 2)

\* ============================================================ Index Builder
\* The stems of the *.html entries a run may find in html/ (the glob keeps
\* only names ending in .html, so the suffix is left implicit).
Stems ==
    {\* gpt4_20240115.html: compact date, the spec's example
     <<"g", "p", "t", "4", "_", "2", "0", "2", "4", "0", "1", "1", "5">>,
     \* claude-sonnet_2024-01-15.html: dashed date, the spec's example
     <<"c", "l", "a", "u", "d", "e", "-", "s", "o", "n", "n", "e", "t", "_", "2", "0", "2", "4", "-", "0", "1", "-", "1", "5">>,
     \* my_model_2023-12-31.html: platform with an underscore of its own
     <<"m", "y", "_", "m", "o", "d", "e", "l", "_", "2", "0", "2", "3", "-", "1", "2", "-", "3", "1">>,
     \* 20240115.html: the date token alone, no underscore
     <<"2", "0", "2", "4", "0", "1", "1", "5">>,
     \* results_final.html: trailing token not numeric
     <<"r", "e", "s", "u", "l", "t", "s", "_", "f", "i", "n", "a", "l">>,
     \* gpt4_20240230.html: eight digits, no such day
     <<"g", "p", "t", "4", "_", "2", "0", "2", "4", "0", "2", "3", "0">>,
     \* gpt4_2024-1-15.html: dashed, month not zero-filled, nine characters
     <<"g", "p", "t", "4", "_", "2", "0", "2", "4", "-", "1", "-", "1", "5">>,
     \* gpt4_2024-1-5.html: dashed, eight characters
     <<"g", "p", "t", "4", "_", "2", "0", "2", "4", "-", "1", "-", "5">>,
     \* gpt4_20240117.html: a report named for the day after the newest st_mtime
     <<"g", "p", "t", "4", "_", "2", "0", "2", "4", "0", "1", "1", "7">>,
     \* index.html: index.html itself
     <<"i", "n", "d", "e", "x">>}

IndexStem == <<"i", "n", "d", "e", "x">>

\* st_mtime values (whole seconds since the epoch) a report may carry:
\* 2024-01-15 14:30:00 and 2024-01-16 08:00:00
MTimes == {1705329000, 1705392000}

\* what datetime.now() may read when the page is rendered: the instant of
\* the newest st_mtime, the last second of that day, and midnight after it
Nows ==
    {DateTime(2024, 1, 16, 8, 0, 0), DateTime(2024, 1, 16, 23, 59, 59),
     DateTime(2024, 1, 17, 0, 0, 0)}

VARIABLES
    \* ---- Index Builder: the file system
    html_dir_exists,   \* html_dir.exists()
    st_mtime,          \* stem -> st_mtime of html/<stem>.html
    glob_order,        \* the order in which html_dir.glob('*.html') yields
    removed,           \* entries unlinked after they were listed
    out_file,          \* what was written to args.output
    \* ---- Index Builder: main() and generate_index_html()
    ix_pc,             \* position in main()
    ix_exc,            \* the exception that left main(), if any
    html_files,        \* list of html_file
    ix_next,           \* position of the grouping loop in html_files
    reports_by_date,   \* date_key -> list of report records
    html_content,      \* the page generate_index_html returned
    \* ---- Comparison Builder: the file system
    csv_dir,           \* the entries of csv/, in the order a glob yields them
    json_dir,          \* the entries of json/, in the order a glob yields them
    cmp_out,           \* what was written to args.output
    \* ---- Comparison Builder: main()
    cmp_pc,            \* position in main()
    result_files,      \* csv_files, then json_files: the list being loaded
    cmp_next,          \* position of the loading loop in result_files
    platforms_data,    \* platform_name -> metrics, in insertion order
    csv_platforms,     \* platforms_data as the CSV loop left it
    json_consulted,    \* whether json/ was globbed
    html_report,       \* the page generate_html_report returned
    \* ---- extract_metrics called on its own
    em_pc,
    em_data,           \* the argument
    em_metrics,        \* the value returned
    \* ---- Connectivity Checker: the process environment and what main() did
    environ,           \* os.environ: variable name -> value, or unset
    vc_pc,             \* position in main()
    vc_base_url,       \* base_url of main()
    vc_api_key,        \* api_key of main()
    success_count,
    vc_ran,            \* the checks executed so far, in order, with their outcome
    vc_requests,       \* the URLs requests.get was called with
    vc_response,       \* what the endpoint answered to the request
    vc_exit,           \* the exit status of the process
    \* ---- Authorization Patch: the class, the environment, one backend
    process_startup,   \* what OpenAIHTTPBackend.process_startup is bound to
    pa_key,            \* os.environ.get("OPENAI_API_KEY")
    pa_key_at_import,  \* its value when the patch module ran
    pa_pc,             \* position of the current call of process_startup
    pa_headers,        \* self._async_client.headers
    pa_after_original, \* the headers when the original startup returned
    pa_calls           \* calls of process_startup completed or raised so far

ix_vars ==
    <<html_dir_exists, st_mtime, glob_order, removed, out_file, ix_pc, ix_exc,
      html_files, ix_next, reports_by_date, html_content>>

cmp_vars ==
    <<csv_dir, json_dir, cmp_out, cmp_pc, result_files, cmp_next, platforms_data,
      csv_platforms, json_consulted, html_report>>

em_vars == <<em_pc, em_data, em_metrics>>

vc_vars ==
    <<environ, vc_pc, vc_base_url, vc_api_key, success_count, vc_ran, vc_requests,
      vc_response, vc_exit>>

pa_vars ==
    <<process_startup, pa_key, pa_key_at_import, pa_pc, pa_headers, pa_after_original,
      pa_calls>>

\* what a run of the Index Builder leaves alone
ix_rest == <<cmp_vars, em_vars, vc_vars, pa_vars>>

\* what a run of the Comparison Builder leaves alone
cmp_rest == <<ix_vars, em_vars, vc_vars, pa_vars>>

\* what a call of extract_metrics leaves alone
em_rest == <<ix_vars, cmp_vars, vc_vars, pa_vars>>

\* what a run of the Connectivity Checker leaves alone
vc_rest == <<ix_vars, cmp_vars, em_vars, pa_vars>>

\* what the Authorization Patch leaves alone
pa_rest == <<ix_vars, cmp_vars, em_vars, vc_vars>>

\* all orders of the elements of a finite set
Perms(S) ==
    {q \in [1..Cardinality(S) -> S] : \A i, j \in 1..Cardinality(S) : q[i] = q[j] => i = j}

NoPage ==
    [kind |-> "none", total_reports |-> 0, total_dates |-> 0, platforms_count |-> 0,
     last_updated |-> <<>>, sections |-> <<>>,
     generation_time |-> DateTime(0, 0, 0, 0, 0, 0)]

\* no comparison page yet
NoReport ==
    [kind |-> "none", error_message |-> FALSE, platform_cards |-> <<>>,
     charts |-> <<>>, chart_scripts |-> <<>>, labels |-> <<>>,
     success_rates |-> <<>>, latencies |-> <<>>, throughputs |-> <<>>]

\* the Index Builder is not run
IxIdle ==
    /\ html_dir_exists = FALSE
    /\ st_mtime = <<>>
    /\ glob_order = <<>>
    /\ removed = {}
    /\ out_file = NoPage
    /\ ix_pc = "idle"
    /\ ix_exc = "none"
    /\ html_files = <<>>
    /\ ix_next = 1
    /\ reports_by_date = <<>>
    /\ html_content = NoPage

\* the Comparison Builder is not run
CmpIdle ==
    /\ csv_dir = <<>>
    /\ json_dir = <<>>
    /\ cmp_out = NoReport
    /\ cmp_pc = "idle"
    /\ result_files = <<>>
    /\ cmp_next = 1
    /\ platforms_data = <<>>
    /\ csv_platforms = <<>>
    /\ json_consulted = FALSE
    /\ html_report = NoReport

\* extract_metrics is not called on its own
EmIdle ==
    /\ em_pc = "idle"
    /\ em_data = <<>>
    /\ em_metrics = <<>>

\* the Connectivity Checker is not run
VcIdle ==
    /\ environ = <<>>
    /\ vc_pc = "idle"
    /\ vc_base_url = [some |-> FALSE, s |-> <<>>]
    /\ vc_api_key = [some |-> FALSE, s |-> <<>>]
    /\ success_count = 0
    /\ vc_ran = <<>>
    /\ vc_requests = <<>>
    /\ vc_response = "none"
    /\ vc_exit = -1

\* the Authorization Patch is not imported
PaIdle ==
    /\ process_startup = "original"
    /\ pa_key = [set |-> FALSE, s |-> <<>>]
    /\ pa_key_at_import = [set |-> FALSE, s |-> <<>>]
    /\ pa_pc = "idle"
    /\ pa_headers = <<>>
    /\ pa_after_original = <<>>
    /\ pa_calls = 0

\* generate_empty_index(output_path): the empty-state page
generate_empty_index == [NoPage EXCEPT !.kind = "empty"]

\* the sort without reverse=True: oldest first
RECURSIVE SortByMtimeAsc(_, _)
SortByMtimeAsc(files, key) ==
    IF files = <<>> THEN <<>>
    ELSE LET rest == SortByMtimeAsc(SubSeq(files, 1, Len(files) - 1), key)
             x    == files[Len(files)]
             n    == Cardinality({i \in 1..Len(rest) : key[rest[i]] <= key[x]})
         IN  SubSeq(rest, 1, n) \o <<x>> \o SubSeq(rest, n + 1, Len(rest))

\* html_files.sort(key=lambda f: f.stat().st_mtime, reverse=True): a stable
\* sort, entries of equal key keep the order they had
RECURSIVE SortByMtimeDesc(_, _)
SortByMtimeDesc(files, key) ==
    IF files = <<>> THEN <<>>
    ELSE LET rest == SortByMtimeDesc(SubSeq(files, 1, Len(files) - 1), key)
             x    == files[Len(files)]
             \* x goes after every entry whose key is not smaller
             n    == Cardinality({i \in 1..Len(rest) : key[rest[i]] >= key[x]})
         IN  SubSeq(rest, 1, n) \o <<x>> \o SubSeq(rest, n + 1, Len(rest))

\* lines 37-38: the trailing token of the stem, kept when it is made of
\* digits and dashes only
DateStr(stem) ==
    LET parts == Split(stem, "_")
        last  == parts[Len(parts)]
    IN  [some |-> IsDigit(Replace(Replace(last, "-"), "_")), s |-> last]

\* the date derivation without its dashed branch (line 43-44 dropped)
DateObjCompactOnly(stem, gone, mtime) ==
    LET ds       == DateStr(stem)
        fallback == IF gone THEN [exc |-> "OSError", dt |-> DateTime(0, 0, 0, 0, 0, 0)]
                    ELSE [exc |-> "none", dt |-> fromtimestamp(mtime)]
        r        == strptime(ds.s, <<>>)
    IN  IF ds.some /\ Len(ds.s) = 8 /\ r.ok THEN [exc |-> "none", dt |-> r.dt]
        ELSE fallback

\* the date derivation without its except clause (lines 48-49 dropped)
DateObjNoExcept(stem, gone, mtime) ==
    LET ds       == DateStr(stem)
        fallback == IF gone THEN [exc |-> "OSError", dt |-> DateTime(0, 0, 0, 0, 0, 0)]
                    ELSE [exc |-> "none", dt |-> fromtimestamp(mtime)]
        Parsed(r) == IF r.ok THEN [exc |-> "none", dt |-> r.dt]
                     ELSE [exc |-> "ValueError", dt |-> DateTime(0, 0, 0, 0, 0, 0)]
    IN  IF ds.some /\ Len(ds.s) = 8 THEN Parsed(strptime(ds.s, <<>>))
        ELSE IF ds.some /\ Contains(ds.s, "-") THEN Parsed(strptime(ds.s, <<"-">>))
        ELSE fallback

\* lines 40-49: date_obj of one html_file.  gone: the entry no longer exists,
\* so html_file.stat() raises; exc is the exception that leaves the block.
DateObj(stem, gone, mtime) ==
    LET ds       == DateStr(stem)
        fallback == IF gone THEN [exc |-> "OSError", dt |-> DateTime(0, 0, 0, 0, 0, 0)]
                    ELSE [exc |-> "none", dt |-> fromtimestamp(mtime)]
        Parsed(r) == IF r.ok THEN [exc |-> "none", dt |-> r.dt]
                     ELSE fallback      \* except ValueError
    IN  IF ds.some /\ Len(ds.s) = 8 THEN Parsed(strptime(ds.s, <<>>))
        ELSE IF ds.some /\ Contains(ds.s, "-") THEN Parsed(strptime(ds.s, <<"-">>))
        ELSE fallback

\* line 55
Platform(stem) ==
    LET parts == Split(stem, "_")
    IN  IF Len(parts) > 1 THEN Join(SubSeq(parts, 1, Len(parts) - 1), "_") ELSE stem

\* the grouping without the test of line 52: the bucket is started anew
AddReportReset(rbd, stem, date_obj) ==
    LET date_key == strftime_date(date_obj)
        report   == [platform |-> Platform(stem), filename |-> stem, modified |-> date_obj]
    IN  [k \in DOMAIN rbd \cup {date_key} |-> IF k = date_key THEN <<report>> ELSE rbd[k]]

\* lines 51-62: the record appended to its bucket (the size is read with
\* stat() and only displayed; its value is left out)
AddReport(rbd, stem, date_obj) ==
    LET date_key == strftime_date(date_obj)
        report   == [platform |-> Platform(stem), filename |-> stem, modified |-> date_obj]
    IN  IF date_key \in DOMAIN rbd
        THEN [rbd EXCEPT ![date_key] = Append(@, report)]
        ELSE [k \in DOMAIN rbd \cup {date_key} |->
                 IF k = date_key THEN <<report>> ELSE rbd[k]]

\* sorted(reports_by_date.keys(), reverse=True)
RECURSIVE SortedKeysDesc(_)
SortedKeysDesc(keys) ==
    IF keys = {} THEN <<>>
    ELSE LET top == CHOOSE k \in keys : \A o \in keys : ~StrLess(k, o)
         IN  <<top>> \o SortedKeysDesc(keys \ {top})

\* max(report['modified'] for report in reports)
MaxModified(reports) ==
    LET S == {reports[i].modified : i \in 1..Len(reports)}
    IN  CHOOSE m \in S : \A o \in S : ~DtLess(m, o)

RECURSIVE SumLen(_, _)
SumLen(rbd, keys) ==
    IF keys = {} THEN 0
    ELSE LET k == CHOOSE k \in keys : TRUE
         IN  Len(rbd[k]) + SumLen(rbd, keys \ {k})

\* lines 279-285
LastUpdated(rbd) ==
    LET most_recent_date == SortedKeysDesc(DOMAIN rbd)[1]
    IN  IF rbd[most_recent_date] # <<>>
        THEN strftime_hm(MaxModified(rbd[most_recent_date]))
        ELSE <<"n", "e", "v", "e", "r">>

\* lines 293-305: the relative-day label of a date section
time_suffix(date_str, now) ==
    LET r == strptime(date_str, <<"-">>)
    IN  IF ~r.ok THEN <<>>                                    \* line 303: ValueError
        ELSE LET day_ago == TimedeltaDays(now, r.dt)
             IN  IF day_ago = 0 THEN <<" ", "(", "T", "o", "d", "a", "y", ")">>
                 ELSE IF day_ago = 1
                 THEN <<" ", "(", "Y", "e", "s", "t", "e", "r", "d", "a", "y", ")">>
                 ELSE <<" ", "(">> \o IntStr(day_ago)
                          \o <<" ", "d", "a", "y", "s", " ", "a", "g", "o", ")">>

\* lines 267-357: the statistics, the date sections of the page and its
\* generation time; now is what datetime.now() reads while the page is built
RenderIndex(rbd, now) ==
    IF DOMAIN rbd = {} THEN generate_empty_index
    ELSE LET order == SortedKeysDesc(DOMAIN rbd)
         IN  [kind |-> "index",
              total_reports |-> SumLen(rbd, DOMAIN rbd),
              total_dates |-> Cardinality(DOMAIN rbd),
              platforms_count |->
                  Cardinality(UNION {{rbd[k][i].platform : i \in 1..Len(rbd[k])} :
                                         k \in DOMAIN rbd}),
              last_updated |-> LastUpdated(rbd),
              sections |-> [i \in 1..Len(order) |->
                               [date_str |-> order[i], reports |-> rbd[order[i]],
                                time_suffix |-> time_suffix(order[i], now)]],
              generation_time |-> now]

\* ---- main() of create_index.py, one action per step that touches the
\* ---- file system

\* lines 16-28: html/ is looked up and listed, index.html is left out
IxList ==
    /\ ix_pc = "start"
    /\ IF ~html_dir_exists
       THEN /\ html_content' = generate_empty_index
            /\ ix_pc' = "rendered"
            /\ UNCHANGED html_files
       ELSE /\ html_files' = SelectSeq(glob_order, LAMBDA f : f # IndexStem)
            /\ ix_pc' = "listed"
            /\ UNCHANGED html_content
    /\ UNCHANGED <<html_dir_exists, st_mtime, glob_order, removed, out_file, ix_exc,
                   ix_next, reports_by_date>>
    /\ UNCHANGED ix_rest

\* the sort step with the stat failure caught and the empty-state page
\* returned in its place
IxSortCaught ==
    /\ ix_pc = "listed"
    /\ IF \E i \in 1..Len(html_files) : html_files[i] \in removed
       THEN /\ ix_pc' = "rendered"
            /\ html_content' = generate_empty_index
            /\ UNCHANGED html_files
       ELSE /\ html_files' = SortByMtimeDesc(html_files, st_mtime)
            /\ ix_pc' = "grouping"
            /\ UNCHANGED html_content
    /\ UNCHANGED <<html_dir_exists, st_mtime, glob_order, removed, out_file, ix_exc,
                   ix_next, reports_by_date>>
    /\ UNCHANGED ix_rest

\* line 31: the sort stats every listed entry
IxSort ==
    /\ ix_pc = "listed"
    /\ IF \E i \in 1..Len(html_files) : html_files[i] \in removed
       THEN /\ ix_pc' = "raised"
            /\ ix_exc' = "OSError"
            /\ UNCHANGED html_files
       ELSE /\ html_files' = SortByMtimeDesc(html_files, st_mtime)
            /\ ix_pc' = "grouping"
            /\ UNCHANGED ix_exc
    /\ UNCHANGED <<html_dir_exists, st_mtime, glob_order, removed, out_file, ix_next,
                   reports_by_date, html_content>>
    /\ UNCHANGED ix_rest

\* lines 35-62: one turn of the grouping loop
IxGroup ==
    /\ ix_pc = "grouping"
    /\ ix_next <= Len(html_files)
    /\ LET f    == html_files[ix_next]
           gone == f \in removed
           r    == DateObj(f, gone, st_mtime[f])
       IN  IF r.exc # "none"
           THEN /\ ix_pc' = "raised"
                /\ ix_exc' = r.exc
                /\ UNCHANGED <<ix_next, reports_by_date>>
           ELSE IF gone            \* line 60: html_file.stat().st_size
           THEN /\ ix_pc' = "raised"
                /\ ix_exc' = "OSError"
                /\ UNCHANGED <<ix_next, reports_by_date>>
           ELSE /\ reports_by_date' = AddReport(reports_by_date, f, r.dt)
                /\ ix_next' = ix_next + 1
                /\ UNCHANGED <<ix_pc, ix_exc>>
    /\ UNCHANGED <<html_dir_exists, st_mtime, glob_order, removed, out_file, html_files,
                   html_content>>
    /\ UNCHANGED ix_rest

\* lines 267-358: the page is rendered from reports_by_date
IxRender ==
    /\ ix_pc = "grouping"
    /\ ix_next > Len(html_files)
    /\ \E now \in Nows : html_content' = RenderIndex(reports_by_date, now)
    /\ ix_pc' = "rendered"
    /\ UNCHANGED <<html_dir_exists, st_mtime, glob_order, removed, out_file, ix_exc,
                   html_files, ix_next, reports_by_date>>
    /\ UNCHANGED ix_rest

\* lines 478-481: the page is written and main() returns (exit status 0)
IxWrite ==
    /\ ix_pc = "rendered"
    /\ out_file' = html_content
    /\ ix_pc' = "done"
    /\ UNCHANGED <<html_dir_exists, st_mtime, glob_order, removed, ix_exc, html_files,
                   ix_next, reports_by_date, html_content>>
    /\ UNCHANGED ix_rest

\* the environment: a listed report is unlinked while main() runs
EnvRemove ==
    /\ ix_pc \in {"listed", "grouping"}
    /\ removed = {}
    /\ \E f \in DOMAIN st_mtime : removed' = {f}
    /\ UNCHANGED <<html_dir_exists, st_mtime, glob_order, out_file, ix_pc, ix_exc,
                   html_files, ix_next, reports_by_date, html_content>>
    /\ UNCHANGED ix_rest

IxInit ==
    /\ html_dir_exists \in BOOLEAN
    /\ \E S \in SUBSET Stems :
          /\ Cardinality(S) <= MaxFiles
          /\ html_dir_exists \/ S = {}
          /\ st_mtime \in [S -> MTimes]
          /\ glob_order \in Perms(S)
    /\ removed = {}
    /\ out_file = NoPage
    /\ ix_pc = "start"
    /\ ix_exc = "none"
    /\ html_files = <<>>
    /\ ix_next = 1
    /\ reports_by_date = <<>>
    /\ html_content = NoPage
    /\ CmpIdle
    /\ EmIdle
    /\ VcIdle
    /\ PaIdle

IxNext == IxList \/ IxSort \/ IxGroup \/ IxRender \/ IxWrite \/ EnvRemove

vars == <<ix_vars, cmp_vars, em_vars, vc_vars, pa_vars>>

SpecIndex == IxInit /\ [][IxNext]_vars

\* ------------------------------------------------ Index Builder: claims

\* the trailing underscore-delimited token of a stem, read off the text
TrailingToken(stem) ==
    LET us == {i \in 1..Len(stem) : stem[i] = "_"}
        p  == IF us = {} THEN 0 ELSE CHOOSE i \in us : \A j \in us : j <= i
    IN  SubSeq(stem, p + 1, Len(stem))

\* the text of the stem before its trailing token and that token's underscore
TextBeforeToken(stem) == SubSeq(stem, 1, Len(stem) - Len(TrailingToken(stem)) - 1)

RealDate(y, m, d) == y >= 1 /\ m \in 1..12 /\ d >= 1 /\ d <= DaysInMonth(y, m)

\* a real calendar date written YYYYMMDD
IsCompactDate(t) ==
    /\ Len(t) = 8
    /\ \A i \in 1..8 : IsDigitChar(t[i])
    /\ RealDate(DecValue(SubSeq(t, 1, 4)), DecValue(SubSeq(t, 5, 6)), DecValue(SubSeq(t, 7, 8)))

\* a real calendar date written YYYY-MM-DD
IsIsoDate(t) ==
    /\ Len(t) = 10
    /\ t[5] = "-" /\ t[8] = "-"
    /\ \A i \in {1, 2, 3, 4, 6, 7, 9, 10} : IsDigitChar(t[i])
    /\ RealDate(DecValue(SubSeq(t, 1, 4)), DecValue(SubSeq(t, 6, 7)), DecValue(SubSeq(t, 9, 10)))

\* the YYYY-MM-DD spelling of a date token of either spelling
IsoOf(t) ==
    IF Len(t) = 8
    THEN SubSeq(t, 1, 4) \o <<"-">> \o SubSeq(t, 5, 6) \o <<"-">> \o SubSeq(t, 7, 8)
    ELSE t

\* a real calendar date written year-month-day with dashes, the month and
\* the day with one or two digits (2024-1-15, 2024-01-5)
IsLooseDashedDate(t) ==
    LET f == Split(t, "-")
    IN  /\ Len(f) = 3
        /\ Len(f[1]) = 4 /\ IsDigit(f[1])
        /\ Len(f[2]) \in {1, 2} /\ IsDigit(f[2])
        /\ Len(f[3]) \in {1, 2} /\ IsDigit(f[3])
        /\ RealDate(DecValue(f[1]), DecValue(f[2]), DecValue(f[3]))

\* the calendar date of each modelled st_mtime, written out
MTimeDay(ts) ==
    IF ts = 1705392000
    THEN <<"2", "0", "2", "4", "-", "0", "1", "-", "1", "6">>
    ELSE <<"2", "0", "2", "4", "-", "0", "1", "-", "1", "5">>

\* the time of day of each modelled st_mtime, written out
MTimeClock(ts) ==
    IF ts = 1705392000 THEN <<"0", "8", ":", "0", "0">>
    ELSE <<"1", "4", ":", "3", "0">>

\* the reports grouped so far, as <<date_key, position in the bucket>>
Grouped ==
    UNION {{<<k, i>> : i \in 1..Len(reports_by_date[k])} : k \in DOMAIN reports_by_date}

\* the report files of html/: every entry but index.html
ReportFiles == DOMAIN st_mtime \ {IndexStem}

\* the report record at <<date_key, position>>
ReportAt(g) == reports_by_date[g[1]][g[2]]

\* a YYYY-MM-DD key as a number that grows with the calendar date
KeyDay(k) ==
    DecValue(SubSeq(k, 1, 4)) * 10000 + DecValue(SubSeq(k, 6, 7)) * 100
        + DecValue(SubSeq(k, 9, 10))

\* C3 (as stated): no error propagates out of main(): whatever happens to the
\* listed files while the index is generated, main() never ends in an
\* exception.
C3_ErrorsCaught == ix_pc # "raised"

\* C3 (amended): an error raised while the index is generated is not caught:
\* main() ends in that exception, takes no further step and has written
\* nothing; the empty-state page is written exactly by the runs that find
\* html/ missing or without a report.
C3_ErrorsPropagate ==
    /\ ix_pc = "raised" =>
          /\ ix_exc = "OSError"
          /\ removed # {}
          /\ out_file = NoPage
          /\ ~ENABLED IxNext
    /\ out_file.kind = "empty" => (~html_dir_exists \/ ReportFiles = {})
    /\ (ix_pc = "done" /\ (~html_dir_exists \/ ReportFiles = {})) => out_file.kind = "empty"

\* a listed report vanished and main() ended in the stat failure
C3_Witness == ix_pc = "raised" /\ removed # {} /\ out_file = NoPage

\* C6: whenever a report exists, 'last updated' is the HH:MM of the
\* modification time of the most recently modified report of the most recent
\* date bucket.
C6_LastUpdatedIsNewestMtime ==
    html_content.kind = "index" =>
        LET top    == html_content.sections[1].reports
            names  == {top[i].filename : i \in 1..Len(top)}
            newest == CHOOSE f \in names : \A o \in names : st_mtime[o] <= st_mtime[f]
        IN  html_content.last_updated = MTimeClock(st_mtime[newest])

\* C7: the date sections of the page are in descending calendar order and the
\* reports of every section are in descending order of modification time.
C7_Ordering ==
    html_content.kind = "index" =>
        LET sec == html_content.sections
        IN  /\ \A i \in 1..(Len(sec) - 1) :
                   KeyDay(sec[i + 1].date_str) < KeyDay(sec[i].date_str)
            /\ \A i \in 1..Len(sec) : \A j \in 1..(Len(sec[i].reports) - 1) :
                   st_mtime[sec[i].reports[j].filename]
                       >= st_mtime[sec[i].reports[j + 1].filename]

\* a section holds two reports of different modification times that the
\* directory listing yielded oldest first
C7_Witness ==
    /\ html_content.kind = "index"
    /\ \E i \in 1..Len(html_content.sections) :
          LET r == html_content.sections[i].reports
          IN  /\ Len(r) >= 2
              /\ st_mtime[r[1].filename] > st_mtime[r[2].filename]
              /\ \E a, b \in 1..Len(glob_order) :
                    a < b /\ glob_order[a] = r[2].filename /\ glob_order[b] = r[1].filename

\* C8: every report file grouped so far is in exactly one bucket, once; no
\* other entry is in a bucket; every key is a real date written YYYY-MM-DD;
\* the total over the buckets is the number of report files.
C8_Grouping ==
    /\ \A n \in 1..Len(html_files) :
          Cardinality({g \in Grouped : ReportAt(g).filename = html_files[n]})
              = IF ix_pc # "listed" /\ n < ix_next THEN 1 ELSE 0
    /\ \A g \in Grouped : ReportAt(g).filename \in ReportFiles
    /\ \A k \in DOMAIN reports_by_date : IsIsoDate(k)
    /\ html_content.kind = "index" =>
          /\ html_content.total_reports = Cardinality(ReportFiles)
          /\ html_content.total_reports = Cardinality(Grouped)

\* a finished run whose page counts two reports of one bucket
C8_Witness ==
    /\ ix_pc = "done"
    /\ out_file.kind = "index"
    /\ \E k \in DOMAIN reports_by_date : Len(reports_by_date[k]) = 2

\* C9 (as stated): a report whose trailing token is a real date written
\* YYYYMMDD or YYYY-MM-DD is in the bucket of that date, whatever its
\* modification time, and its platform is the text before that token.
C9_FilenameDate ==
    \A g \in Grouped :
        LET r == ReportAt(g)
            t == TrailingToken(r.filename)
        IN  (IsCompactDate(t) \/ IsIsoDate(t)) =>
                /\ g[1] = IsoOf(t)
                /\ r.platform = TextBeforeToken(r.filename)

\* C9 (amended): the bucket is as stated; the platform is the text before
\* the token when the stem has an underscore, and the whole stem when the
\* stem is the date token alone.
C9_FilenameDateAmended ==
    \A g \in Grouped :
        LET r == ReportAt(g)
            t == TrailingToken(r.filename)
        IN  (IsCompactDate(t) \/ IsIsoDate(t)) =>
                /\ g[1] = IsoOf(t)
                /\ r.platform = IF Contains(r.filename, "_")
                                THEN TextBeforeToken(r.filename)
                                ELSE r.filename

\* the two spellings of one date share a bucket that is not the day of the
\* compact one's modification time
C9_Witness ==
    \E g, h \in Grouped :
        /\ g[1] = h[1]
        /\ IsCompactDate(TrailingToken(ReportAt(g).filename))
        /\ IsIsoDate(TrailingToken(ReportAt(h).filename))
        /\ Contains(ReportAt(g).filename, "_")
        /\ MTimeDay(st_mtime[ReportAt(g).filename]) # g[1]

\* C10 (as stated): a report whose trailing token is not a date written
\* YYYYMMDD or YYYY-MM-DD is in the bucket of the day of its modification
\* time, and the date derivation raises nothing.
C10_Fallback ==
    /\ ix_exc # "ValueError"
    /\ \A g \in Grouped :
          LET r == ReportAt(g)
              t == TrailingToken(r.filename)
          IN  ~(IsCompactDate(t) \/ IsIsoDate(t)) =>
                  g[1] = MTimeDay(st_mtime[r.filename])

\* C10 (amended): the fallback is taken by the tokens that are neither a
\* date written YYYYMMDD nor, at a length other than eight, a date written
\* year-month-day with dashes and a one- or two-digit month and day.
C10_FallbackAmended ==
    /\ ix_exc # "ValueError"
    /\ \A g \in Grouped :
          LET r == ReportAt(g)
              t == TrailingToken(r.filename)
          IN  ~(IsCompactDate(t) \/ (Len(t) # 8 /\ IsLooseDashedDate(t))) =>
                  g[1] = MTimeDay(st_mtime[r.filename])

\* a report named with eight digits that are no date was grouped by the day
\* of its modification time
C10_Witness ==
    \E g \in Grouped :
        LET t == TrailingToken(ReportAt(g).filename)
        IN  IsDigit(t) /\ Len(t) = 8 /\ ~IsCompactDate(t)

\* the day number of a YYYY-MM-DD key
KeyDayNumber(k) ==
    DayNumber(DecValue(SubSeq(k, 1, 4)), DecValue(SubSeq(k, 6, 7)), DecValue(SubSeq(k, 9, 10)))

\* the N of a label ' (N days ago)', -1 when the label is none of these
DaysAgoOf(label) ==
    LET S == {n \in -40..40 :
                 label = <<" ", "(">> \o IntStr(n)
                             \o <<" ", "d", "a", "y", "s", " ", "a", "g", "o", ")">>}
    IN  IF S = {} THEN -1 ELSE CHOOSE n \in S : TRUE

\* C18: for every date bucket and every current time the section label is
\* 'Today' exactly when the bucket date is the current calendar date,
\* 'Yesterday' exactly when it is the day before, and otherwise 'N days ago'
\* with N >= 2 the number of days by which the bucket date precedes the
\* current date.
C18_RelativeDay ==
    html_content.kind = "index" =>
        \A i \in 1..Len(html_content.sections) :
            LET sec   == html_content.sections[i]
                now   == html_content.generation_time
                today == DayNumber(now.year, now.month, now.day)
                n     == today - KeyDayNumber(sec.date_str)
            IN  /\ sec.time_suffix = <<" ", "(", "T", "o", "d", "a", "y", ")">> <=> n = 0
                /\ sec.time_suffix = <<" ", "(", "Y", "e", "s", "t", "e", "r", "d", "a", "y", ")">>
                      <=> n = 1
                /\ n \notin {0, 1} => n >= 2 /\ DaysAgoOf(sec.time_suffix) = n

\* ======================================================= Comparison Builder
\* ---- values of result rows: CSV cells are strings, JSON also has numbers
\* ---- and null
VStr(s) == [t |-> "str", s |-> s, n |-> 0]

VNum(n) == [t |-> "num", s |-> <<>>, n |-> n]

VNone == [t |-> "none", s |-> <<>>, n |-> 0]

\* bool(v)
Truthy(v) ==
    IF v.t = "str" THEN v.s # <<>>
    ELSE IF v.t = "num" THEN v.n # 0
    ELSE FALSE

\* float(v): [ok |-> FALSE] stands for ValueError (a string that is no
\* number) or TypeError (None).  The modelled strings are made of digits
\* and lower-case letters and none of them spells nan or inf, so the
\* numbers among them are the strings of digits.
float(v) ==
    IF v.t = "num" THEN [ok |-> TRUE, x |-> v.n]
    ELSE IF v.t = "str" /\ IsDigit(v.s) THEN [ok |-> TRUE, x |-> DecValue(v.s)]
    ELSE [ok |-> FALSE, x |-> 0]

\* row.get(field)
Get(row, field) == IF field \in DOMAIN row THEN row[field] ELSE VNone

\* the values load_result_data returns: a list of rows, a JSON object with
\* its sub-mappings, or None
ListData(rows) == [shape |-> "list", rows |-> rows, sub |-> <<>>]

DictData(sub) == [shape |-> "dict", rows |-> <<>>, sub |-> sub]

NoneData == [shape |-> "none", rows |-> <<>>, sub |-> <<>>]

\* bool(data), the test of lines 385 and 396
DataTruthy(data) ==
    IF data.shape = "list" THEN data.rows # <<>>
    ELSE IF data.shape = "dict" THEN DOMAIN data.sub # {}
    ELSE FALSE

\* line 46
numeric_fields ==
    <<"request_latency", "response_time", "tokens_per_second", "prompt_tokens",
      "completion_tokens">>

RECURSIVE SeqSum(_)
SeqSum(q) == IF q = <<>> THEN 0 ELSE Head(q) + SeqSum(Tail(q))

SeqMin(q) == CHOOSE x \in {q[i] : i \in 1..Len(q)} : \A i \in 1..Len(q) : x <= q[i]

SeqMax(q) == CHOOSE x \in {q[i] : i \in 1..Len(q)} : \A i \in 1..Len(q) : x >= q[i]

\* a metric: an {avg, min, max, count} aggregate, or a scalar.  Quotients
\* are kept as <<numerator, denominator>>.
Aggregate(values) ==
    [kind |-> "agg", avg |-> <<SeqSum(values), Len(values)>>, min |-> SeqMin(values),
     max |-> SeqMax(values), count |-> Len(values), value |-> <<0, 1>>]

Scalar(num, den) ==
    [kind |-> "scalar", avg |-> <<0, 1>>, min |-> 0, max |-> 0, count |-> 0,
     value |-> <<num, den>>]

\* line 51: the rows the comprehension keeps, those whose value is truthy
Kept(data, field) == SelectSeq(data, LAMBDA row : Truthy(Get(row, field)))

\* lines 49-60: whether the field gets an aggregate.  One value float()
\* rejects raises inside the try block and the field is passed over.
HasAggregate(data, field) ==
    /\ field \in DOMAIN data[1]
    /\ \A i \in 1..Len(Kept(data, field)) : float(Kept(data, field)[i][field]).ok
    /\ Kept(data, field) # <<>>

FieldAggregate(data, field) ==
    LET kept == Kept(data, field)
    IN  Aggregate([i \in 1..Len(kept) |-> float(kept[i][field]).x])

\* line 66 counting the rows without an error key, whatever the value
SuccessfulWithoutKey(rows) == Len(SelectSeq(rows, LAMBDA row : "error" \notin DOMAIN row))

\* line 66: sum(1 for row in data if not row.get('error'))
Successful(rows) == Len(SelectSeq(rows, LAMBDA row : ~Truthy(Get(row, "error"))))

\* lines 36-76
extract_metrics(data) ==
    IF data.shape = "list"
    THEN IF Len(data.rows) = 0 THEN <<>>
         ELSE LET rows == data.rows
                  aggs == {numeric_fields[i] : i \in {j \in 1..Len(numeric_fields) :
                                                       HasAggregate(rows, numeric_fields[j])}}
                  successful == Successful(rows)
              IN  [m \in aggs \cup {"total_requests", "success_rate"} |->
                      IF m = "total_requests" THEN Scalar(Len(rows), 1)
                      ELSE IF m = "success_rate" THEN Scalar(successful * 100, Len(rows))
                      ELSE FieldAggregate(rows, m)]
    ELSE IF data.shape = "dict"
    THEN LET from_metrics == IF "metrics" \in DOMAIN data.sub THEN data.sub["metrics"] ELSE <<>>
             from_summary == IF "summary" \in DOMAIN data.sub THEN data.sub["summary"] ELSE <<>>
         IN  [m \in DOMAIN from_metrics \cup DOMAIN from_summary |->
                 IF m \in DOMAIN from_summary THEN from_summary[m] ELSE from_metrics[m]]
    ELSE <<>>

\* ---- extract_metrics called on its own
\* the values a row may hold for tokens_per_second: 10, 20, bad, the empty
\* string, None (a CSV line shorter than the header), or no such key
TpsChoices ==
    {[has |-> FALSE, v |-> VNone],
     [has |-> TRUE, v |-> VStr(<<"1", "0">>)],
     [has |-> TRUE, v |-> VStr(<<"2", "0">>)],
     [has |-> TRUE, v |-> VStr(<<"b", "a", "d">>)],
     [has |-> TRUE, v |-> VStr(<<>>)],
     [has |-> TRUE, v |-> VNone]}

\* and for error: no such key, the empty string, or a message
ErrChoices ==
    {[has |-> FALSE, v |-> VNone],
     [has |-> TRUE, v |-> VStr(<<>>)],
     [has |-> TRUE, v |-> VStr(<<"t", "i", "m", "e", "o", "u", "t">>)]}

MakeRow(t, e) ==
    [f \in (IF t.has THEN {"tokens_per_second"} ELSE {}) \cup (IF e.has THEN {"error"} ELSE {})
        |-> IF f = "tokens_per_second" THEN t.v ELSE e.v]

EmRows == {MakeRow(t, e) : t \in TpsChoices, e \in ErrChoices}

EmInit ==
    /\ em_pc = "call"
    /\ \E n \in 0..MaxRows : \E rows \in [1..n -> EmRows] : em_data = ListData(rows)
    /\ em_metrics = <<>>
    /\ IxIdle
    /\ CmpIdle
    /\ VcIdle
    /\ PaIdle

EmExtract ==
    /\ em_pc = "call"
    /\ em_metrics' = extract_metrics(em_data)
    /\ em_pc' = "returned"
    /\ UNCHANGED em_data
    /\ UNCHANGED em_rest

EmNext == EmExtract

SpecMetrics == EmInit /\ [][EmNext]_vars

\* ---- extract_metrics called on rows that differ in their error field
\* the longest list of such rows
MaxRateRows == 4

\* the error field of a row: no such key, the empty string, a message, null,
\* or a number; the row may carry a throughput
RateRows ==
    {MakeRow(t, e) :
        t \in {[has |-> FALSE, v |-> VNone], [has |-> TRUE, v |-> VStr(<<"1", "0">>)]},
        e \in ErrChoices \cup {[has |-> TRUE, v |-> VNone], [has |-> TRUE, v |-> VNum(1)]}}

EmRateInit ==
    /\ em_pc = "call"
    /\ \E n \in 0..MaxRateRows : \E rows \in [1..n -> RateRows] : em_data = ListData(rows)
    /\ em_metrics = <<>>
    /\ IxIdle
    /\ CmpIdle
    /\ VcIdle
    /\ PaIdle

SpecRate == EmRateInit /\ [][EmNext]_vars

\* the rows of the argument that lack a truthy error field: no error key, or
\* an empty string, null or 0 under it
RowsWithoutError ==
    {i \in 1..Len(em_data.rows) :
        \/ "error" \notin DOMAIN em_data.rows[i]
        \/ em_data.rows[i]["error"].t = "none"
        \/ em_data.rows[i]["error"].t = "str" /\ em_data.rows[i]["error"].s = <<>>
        \/ em_data.rows[i]["error"].t = "num" /\ em_data.rows[i]["error"].n = 0}

\* C16: for a non-empty list of rows, total_requests is the number of rows
\* and success_rate is 100 times the number of rows lacking a truthy error
\* field, divided by the number of rows.
C16_SuccessRate ==
    (em_pc = "returned" /\ em_data.shape = "list" /\ Len(em_data.rows) > 0) =>
        /\ "total_requests" \in DOMAIN em_metrics
        /\ em_metrics["total_requests"].value = <<Len(em_data.rows), 1>>
        /\ "success_rate" \in DOMAIN em_metrics
        /\ em_metrics["success_rate"].value[1] * Len(em_data.rows)
              = 100 * Cardinality(RowsWithoutError) * em_metrics["success_rate"].value[2]

\* four rows, one of them with a message under error, one with an empty
\* string there: the rate is 75
C16_Witness ==
    /\ em_pc = "returned"
    /\ Len(em_data.rows) = 4
    /\ Cardinality(RowsWithoutError) = 3
    /\ \E i \in 1..4 : "error" \in DOMAIN em_data.rows[i] /\ i \in RowsWithoutError
    /\ em_metrics["success_rate"].value[1] = 75 * em_metrics["success_rate"].value[2]

\* a value that is present and that float() accepts
Coercible(v) == v.t = "num" \/ (v.t = "str" /\ IsDigit(v.s))

\* C2: on a list of rows, every numeric field is aggregated over exactly the
\* rows whose value is present and numeric-coercible; the other rows are
\* left out of the aggregate and the aggregate is still computed (10, 20 and
\* "bad" give avg 15 and count 2).
C2_AggregateOverCoercible ==
    (em_pc = "returned" /\ em_data.rows # <<>>) =>
        \A k \in 1..Len(numeric_fields) :
            LET f    == numeric_fields[k]
                good == SelectSeq(em_data.rows,
                                  LAMBDA row : f \in DOMAIN row /\ Coercible(row[f]))
                nums == [i \in 1..Len(good) |-> float(good[i][f]).x]
            IN  IF good = <<>> THEN f \notin DOMAIN em_metrics
                ELSE /\ f \in DOMAIN em_metrics
                     /\ em_metrics[f].count = Len(good)
                     /\ em_metrics[f].avg = <<SeqSum(nums), Len(good)>>
                     /\ em_metrics[f].min = SeqMin(nums)
                     /\ em_metrics[f].max = SeqMax(nums)

\* ---- the result files
\* gpt4_results, gpt4_run2 (the same platform again), claude_results, notes
StemGpt4 == <<"g", "p", "t", "4", "_", "r", "e", "s", "u", "l", "t", "s">>

StemGpt4Run2 == <<"g", "p", "t", "4", "_", "r", "u", "n", "2">>

StemClaude == <<"c", "l", "a", "u", "d", "e", "_", "r", "e", "s", "u", "l", "t", "s">>

StemNotes == <<"n", "o", "t", "e", "s">>

\* the names csv/ may hold: three .csv files and one file the glob passes over
CsvNames ==
    {[stem |-> StemGpt4, ext |-> "csv"], [stem |-> StemGpt4Run2, ext |-> "csv"],
     [stem |-> StemClaude, ext |-> "csv"], [stem |-> StemNotes, ext |-> "txt"]}

\* the names json/ may hold
JsonNames == {[stem |-> StemGpt4, ext |-> "json"], [stem |-> StemClaude, ext |-> "json"]}

\* a file's content: whether it can be opened and decoded, for a CSV file the
\* cells of its header line and of its other lines, for a JSON file the
\* value it holds
CsvContent(ok, header, lines) ==
    [ok |-> ok, header |-> header, lines |-> lines, value |-> NoneData]

JsonContent(ok, value) == [ok |-> ok, header |-> <<>>, lines |-> <<>>, value |-> value]

\* a well-formed CSV file with two data rows, a CSV file with its header
\* only, and a CSV file that cannot be read
CsvContents ==
    {CsvContent(TRUE, <<"tokens_per_second", "error">>,
                <<<<(<<"1", "0">>), <<>>>>, <<(<<"2", "0">>), <<>>>>>>),
     CsvContent(TRUE, <<"tokens_per_second", "error">>, <<>>),
     CsvContent(FALSE, <<>>, <<>>)}

\* a JSON list of one row, a JSON object with a metrics sub-mapping, and a
\* file that is no JSON
JsonContents ==
    {JsonContent(TRUE, ListData(<<[tokens_per_second |-> VNum(10)]>>)),
     JsonContent(TRUE, DictData([metrics |-> [total_requests |-> Scalar(5, 1)]])),
     JsonContent(FALSE, NoneData)}

\* csv.DictReader: every non-empty line after the header becomes a mapping
\* from the header's fields to the line's cells, None where the line is
\* short (cells beyond the header go under the key None, which no field
\* of extract_metrics reads)
DictReader(header, lines) ==
    LET body == SelectSeq(lines, LAMBDA l : l # <<>>)
        Col(f) == CHOOSE i \in 1..Len(header) : header[i] = f
    IN  [n \in 1..Len(body) |->
            [f \in {header[i] : i \in 1..Len(header)} |->
                IF Col(f) <= Len(body[n]) THEN VStr(body[n][Col(f)]) ELSE VNone]]

\* results_dir.glob('csv/*.csv'), glob('json/*.json'): pathlib.Path objects
\* of the entries with the extension, in directory order
Glob(dir, ext) ==
    LET hits == SelectSeq(dir, LAMBDA e : e.ext = ext)
    IN  [i \in 1..Len(hits) |->
            [kind |-> "Path", stem |-> hits[i].stem, ext |-> hits[i].ext,
             content |-> hits[i].content]]

\* lines 15-34.  file_path.endswith exists on str only: for a pathlib.Path
\* line 18 raises AttributeError inside the try block, line 32 catches it
\* and None is returned.
load_result_data(file_path) ==
    IF file_path.kind # "str" THEN NoneData
    ELSE IF file_path.ext = "json"
    THEN (IF file_path.content.ok THEN file_path.content.value ELSE NoneData)
    ELSE IF file_path.ext = "csv"
    THEN (IF file_path.content.ok
          THEN ListData(DictReader(file_path.content.header, file_path.content.lines))
          ELSE NoneData)
    ELSE NoneData

\* lines 383, 394: csv_file.stem.split('_')[0]
PlatformName(stem) == Split(stem, "_")[1]

\* platforms_data[platform_name] = metrics: a key already there keeps its place
Put(pd, name, metrics) ==
    IF \E i \in 1..Len(pd) : pd[i].name = name
    THEN [i \in 1..Len(pd) |-> IF pd[i].name = name THEN [name |-> name, metrics |-> metrics]
                                ELSE pd[i]]
    ELSE Append(pd, [name |-> name, metrics |-> metrics])

RECURSIVE Pow10(_)
Pow10(d) == IF d = 0 THEN 1 ELSE 10 * Pow10(d - 1)

\* f"{q:.<d>f}" of a quotient <<numerator, denominator>> that is not
\* negative: d decimals, the nearest value, a tie going to the even digit
Fixed(q, d) ==
    LET n      == q[1] * Pow10(d)
        down   == n \div q[2]
        rem    == n % q[2]
        scaled == IF 2 * rem > q[2] \/ (2 * rem = q[2] /\ down % 2 = 1) THEN down + 1
                  ELSE down
    IN  Decimal(scaled \div Pow10(d)) \o <<".">> \o Pad(scaled % Pow10(d), d)

NA == <<"N", "/", "A">>

\* bool(metrics.get(name)): a number that is not 0, or an aggregate (a dict
\* that is not empty)
MetricTruthy(metrics, name) ==
    /\ name \in DOMAIN metrics
    /\ metrics[name].kind = "agg" \/ metrics[name].value[1] # 0

\* lines 234-239: key_metrics, the four values of a platform card.  A
\* total_requests is a whole number (a row count).
key_metrics(metrics) ==
    [label \in {"Total Requests", "Success Rate", "Avg Latency", "Tokens/sec"} |->
        IF label = "Total Requests"
        THEN (IF "total_requests" \in DOMAIN metrics
              THEN Decimal(metrics["total_requests"].value[1])
              ELSE NA)
        ELSE IF label = "Success Rate"
        THEN (IF MetricTruthy(metrics, "success_rate")
              THEN Fixed(metrics["success_rate"].value, 1) \o <<"%">>
              ELSE NA)
        ELSE IF label = "Avg Latency"
        THEN (IF MetricTruthy(metrics, "request_latency")
              THEN Fixed(metrics["request_latency"].avg, 2) \o <<"s">>
              ELSE NA)
        ELSE (IF MetricTruthy(metrics, "tokens_per_second")
              THEN Fixed(metrics["tokens_per_second"].avg, 1)
              ELSE NA)]

\* line 251 with the charts drawn for a single platform too
ChartsShownForOne(pd) == Len(pd) > 0

\* line 251: len(platforms_data) > 1
ChartsShown(pd) == Len(pd) > 1

\* lines 278-280: platforms_data[p].get(name, 0) and
\* platforms_data[p].get(name, {}).get('avg', 0), as quotients
ScalarOrZero(metrics, name) == IF name \in DOMAIN metrics THEN metrics[name].value ELSE <<0, 1>>

AvgOrZero(metrics, name) == IF name \in DOMAIN metrics THEN metrics[name].avg ELSE <<0, 1>>

\* lines 78-364: the parts of the page that depend on platforms_data: the
\* error banner, one card per platform with metrics, and, when there are
\* two platforms or more, the three chart sections, the three chart
\* scripts, their labels and their data arrays.  The metrics are those of
\* the data model: total_requests and success_rate are numbers,
\* request_latency and tokens_per_second are aggregates.
generate_html_report(pd) ==
    LET with_metrics == SelectSeq(pd, LAMBDA e : DOMAIN e.metrics # {})
        ids          == <<"successRateChart", "latencyChart", "throughputChart">>
    IN  [kind |-> "report",
         error_message |-> (pd = <<>>),
         platform_cards |-> [i \in 1..Len(with_metrics) |->
                                [name |-> with_metrics[i].name,
                                 values |-> key_metrics(with_metrics[i].metrics)]],
         charts |-> IF ChartsShown(pd) THEN ids ELSE <<>>,
         chart_scripts |-> IF ChartsShown(pd) THEN ids ELSE <<>>,
         labels |-> IF ChartsShown(pd) THEN [i \in 1..Len(pd) |-> pd[i].name] ELSE <<>>,
         success_rates |-> IF ChartsShown(pd)
                           THEN [i \in 1..Len(pd) |-> ScalarOrZero(pd[i].metrics, "success_rate")]
                           ELSE <<>>,
         latencies |-> IF ChartsShown(pd)
                       THEN [i \in 1..Len(pd) |-> AvgOrZero(pd[i].metrics, "request_latency")]
                       ELSE <<>>,
         throughputs |-> IF ChartsShown(pd)
                         THEN [i \in 1..Len(pd) |-> AvgOrZero(pd[i].metrics, "tokens_per_second")]
                         ELSE <<>>]

\* the fallback decided on the listing instead of on platforms_data
CmpFallbackOnListing ==
    /\ cmp_pc = "csv"
    /\ cmp_next > Len(result_files)
    /\ csv_platforms' = platforms_data
    /\ IF result_files = <<>>
       THEN /\ result_files' = Glob(json_dir, "json")
            /\ json_consulted' = TRUE
       ELSE /\ result_files' = <<>>
            /\ json_consulted' = FALSE
    /\ cmp_next' = 1
    /\ cmp_pc' = "json"
    /\ UNCHANGED <<csv_dir, json_dir, cmp_out, platforms_data, html_report>>
    /\ UNCHANGED cmp_rest

\* ---- main() of generate_comparison.py

\* line 381
CmpGlobCsv ==
    /\ cmp_pc = "start"
    /\ result_files' = Glob(csv_dir, "csv")
    /\ cmp_next' = 1
    /\ cmp_pc' = "csv"
    /\ UNCHANGED <<csv_dir, json_dir, cmp_out, platforms_data, csv_platforms,
                   json_consulted, html_report>>
    /\ UNCHANGED cmp_rest

\* lines 382-388 and 393-399: one turn of the loading loop
CmpLoad ==
    /\ cmp_pc \in {"csv", "json"}
    /\ cmp_next <= Len(result_files)
    /\ LET file == result_files[cmp_next]
           data == load_result_data(file)
       IN  platforms_data' =
               IF DataTruthy(data)
               THEN Put(platforms_data, PlatformName(file.stem), extract_metrics(data))
               ELSE platforms_data
    /\ cmp_next' = cmp_next + 1
    /\ UNCHANGED <<csv_dir, json_dir, cmp_out, cmp_pc, result_files, csv_platforms,
                   json_consulted, html_report>>
    /\ UNCHANGED cmp_rest

\* lines 390-392: the JSON files are looked up when platforms_data is empty
CmpFallback ==
    /\ cmp_pc = "csv"
    /\ cmp_next > Len(result_files)
    /\ csv_platforms' = platforms_data
    /\ IF platforms_data = <<>>
       THEN /\ result_files' = Glob(json_dir, "json")
            /\ json_consulted' = TRUE
       ELSE /\ result_files' = <<>>
            /\ json_consulted' = FALSE
    /\ cmp_next' = 1
    /\ cmp_pc' = "json"
    /\ UNCHANGED <<csv_dir, json_dir, cmp_out, platforms_data, html_report>>
    /\ UNCHANGED cmp_rest

\* lines 401-407
CmpRender ==
    /\ cmp_pc = "json"
    /\ cmp_next > Len(result_files)
    /\ html_report' = generate_html_report(platforms_data)
    /\ cmp_pc' = "rendered"
    /\ UNCHANGED <<csv_dir, json_dir, cmp_out, result_files, cmp_next, platforms_data,
                   csv_platforms, json_consulted>>
    /\ UNCHANGED cmp_rest

\* lines 409-413: the page is written and main() returns (exit status 0)
CmpWrite ==
    /\ cmp_pc = "rendered"
    /\ cmp_out' = html_report
    /\ cmp_pc' = "done"
    /\ UNCHANGED <<csv_dir, json_dir, result_files, cmp_next, platforms_data,
                   csv_platforms, json_consulted, html_report>>
    /\ UNCHANGED cmp_rest

\* the directories a run may find: up to MaxResultFiles entries each, in any
\* order, each with any of the contents of its kind
Listings(names, contents) ==
    UNION {UNION {{[i \in 1..Cardinality(S) |->
                       [stem |-> q[i].stem, ext |-> q[i].ext, content |-> c[q[i]]]] :
                    q \in Perms(S)} : c \in [S -> contents]} :
           S \in {T \in SUBSET names : Cardinality(T) <= MaxResultFiles}}

CmpInit ==
    /\ csv_dir \in Listings(CsvNames, CsvContents)
    /\ json_dir \in Listings(JsonNames, JsonContents)
    /\ cmp_out = NoReport
    /\ cmp_pc = "start"
    /\ result_files = <<>>
    /\ cmp_next = 1
    /\ platforms_data = <<>>
    /\ csv_platforms = <<>>
    /\ json_consulted = FALSE
    /\ html_report = NoReport
    /\ IxIdle
    /\ EmIdle
    /\ VcIdle
    /\ PaIdle

CmpNext == CmpGlobCsv \/ CmpLoad \/ CmpFallback \/ CmpRender \/ CmpWrite

SpecCompare == CmpInit /\ [][CmpNext]_vars

\* ------------------------------------------- Comparison Builder: claims

\* a CSV file that can be read and has a header and at least one data row
WellFormedCsv(e) ==
    /\ e.ext = "csv"
    /\ e.content.ok
    /\ e.content.header # <<>>
    /\ \E i \in 1..Len(e.content.lines) : e.content.lines[i] # <<>>

\* a result file whose content can be turned into data
Loadable(e) ==
    IF e.ext = "csv" THEN WellFormedCsv(e)
    ELSE e.ext = "json" /\ e.content.ok /\ DataTruthy(e.content.value)

\* what a readable file holds, as data
ContentData(e) ==
    IF e.ext = "csv" THEN ListData(DictReader(e.content.header, e.content.lines))
    ELSE e.content.value

Reported(p) == \E j \in 1..Len(platforms_data) : platforms_data[j].name = p

CsvEntries == {csv_dir[i] : i \in {j \in 1..Len(csv_dir) : csv_dir[j].ext = "csv"}}

JsonEntries == {json_dir[i] : i \in {j \in 1..Len(json_dir) : json_dir[j].ext = "json"}}

\* C1: when main() has rendered the page, every well-formed CSV file of csv/
\* with a data row has its platform in platforms_data, with the metrics of
\* the rows of a file of that platform, and the page has no 'No benchmark
\* data found' banner.
C1_CsvPlatformsReported ==
    cmp_pc \in {"rendered", "done"} =>
        \A e \in CsvEntries :
            WellFormedCsv(e) =>
                /\ ~html_report.error_message
                /\ \E j \in 1..Len(platforms_data) :
                      /\ platforms_data[j].name = PlatformName(e.stem)
                      /\ \E g \in CsvEntries :
                            /\ WellFormedCsv(g)
                            /\ PlatformName(g.stem) = PlatformName(e.stem)
                            /\ platforms_data[j].metrics = extract_metrics(ContentData(g))

\* C4: a finished run has written its page; the platforms it reports are
\* those of the consulted files that can be turned into data, so a file that
\* cannot is left out and every other file's platform is reported.
C4_BadFilesSkipped ==
    cmp_pc = "done" =>
        LET consulted == CsvEntries \cup (IF json_consulted THEN JsonEntries ELSE {})
        IN  /\ cmp_out = html_report
            /\ cmp_out.kind = "report"
            /\ \A e \in consulted : Loadable(e) => Reported(PlatformName(e.stem))
            /\ \A j \in 1..Len(platforms_data) :
                  \E e \in consulted :
                      Loadable(e) /\ PlatformName(e.stem) = platforms_data[j].name

\* C5 (as stated): json/ is consulted only when csv/ holds no .csv file, and
\* when csv/ holds one no JSON file adds a platform.
C5_JsonOnlyWithoutCsvFiles ==
    /\ json_consulted => CsvEntries = {}
    /\ (cmp_pc \in {"json", "rendered", "done"} /\ CsvEntries # {}) =>
          platforms_data = csv_platforms

\* C5 (amended): json/ is consulted exactly when the CSV files left
\* platforms_data empty, which includes an empty csv/; when it is not
\* consulted the report holds the CSV platforms and nothing else.
C5_JsonWhenNoCsvData ==
    cmp_pc \in {"json", "rendered", "done"} =>
        /\ json_consulted <=> csv_platforms = <<>>
        /\ CsvEntries = {} => json_consulted
        /\ ~json_consulted => platforms_data = csv_platforms

\* a finished run that consulted json/ although csv/ held a .csv file
C5_Witness ==
    /\ cmp_pc = "done"
    /\ json_consulted
    /\ CsvEntries # {}
    /\ JsonEntries # {}


\* ---- generate_html_report called on its own
\* the platforms a report may compare
MaxPlatforms == 2

PlatformNames ==
    {<<"g", "p", "t", "4">>, <<"c", "l", "a", "u", "d", "e">>, <<"l", "l", "a", "m", "a">>,
     <<"m", "i", "s", "t", "r", "a", "l">>}

\* rows to reduce: with or without a tokens_per_second of 10 or 25, with or
\* without an error
ReportRows ==
    {MakeRow(t, e) :
        t \in {[has |-> FALSE, v |-> VNone], [has |-> TRUE, v |-> VStr(<<"1", "0">>)],
               [has |-> TRUE, v |-> VStr(<<"2", "5">>)]},
        e \in {[has |-> FALSE, v |-> VNone],
               [has |-> TRUE, v |-> VStr(<<"t", "i", "m", "e", "o", "u", "t">>)]}}

\* a row of ReportRows
Row(tps, error) ==
    MakeRow(IF tps = <<>> THEN [has |-> FALSE, v |-> VNone] ELSE [has |-> TRUE, v |-> VStr(tps)],
            IF error THEN [has |-> TRUE, v |-> VStr(<<"t", "i", "m", "e", "o", "u", "t">>)]
            ELSE [has |-> FALSE, v |-> VNone])

\* the MetricsSummary values a platform may carry: what extract_metrics makes
\* of one row, of two and of three rows part of which failed, of a JSON
\* object without metrics (nothing), and of JSON objects whose sub-mappings
\* hold a request count, or a latency aggregate and a success rate
MetricsSummaries ==
    {extract_metrics(ListData(<<r>>)) : r \in ReportRows}
        \cup {extract_metrics(ListData(<<Row(<<"1", "0">>, FALSE), Row(<<"2", "5">>, TRUE)>>)),
              extract_metrics(ListData(<<Row(<<"1", "0">>, TRUE), Row(<<"2", "5">>, TRUE),
                                         Row(<<>>, FALSE)>>)),
              extract_metrics(DictData([other |-> <<>>])),
              extract_metrics(DictData([metrics |-> [total_requests |-> Scalar(5, 1)]])),
              extract_metrics(DictData([summary |->
                  [request_latency |-> Aggregate(<<1, 2>>), success_rate |-> Scalar(100, 1)]]))}

\* platforms_data: up to MaxPlatforms platforms of different names
PlatformsData ==
    UNION {{pd \in [1..n -> [name : PlatformNames, metrics : MetricsSummaries]] :
               \A i, j \in 1..n : pd[i].name = pd[j].name => i = j} : n \in 0..MaxPlatforms}

RpInit ==
    /\ csv_dir = <<>>
    /\ json_dir = <<>>
    /\ cmp_out = NoReport
    /\ cmp_pc = "call"
    /\ result_files = <<>>
    /\ cmp_next = 1
    /\ platforms_data \in PlatformsData
    /\ csv_platforms = <<>>
    /\ json_consulted = FALSE
    /\ html_report = NoReport
    /\ IxIdle
    /\ EmIdle
    /\ VcIdle
    /\ PaIdle

\* html_content = generate_html_report(platforms_data, output, date)
RpCall ==
    /\ cmp_pc = "call"
    /\ html_report' = generate_html_report(platforms_data)
    /\ cmp_pc' = "returned"
    /\ UNCHANGED <<csv_dir, json_dir, cmp_out, result_files, cmp_next, platforms_data,
                   csv_platforms, json_consulted>>
    /\ UNCHANGED cmp_rest

RpNext == RpCall

SpecReport == RpInit /\ [][RpNext]_vars

\* --------------------------------------------- Comparison report: claims

\* the page has been rendered from platforms_data
Rendered == html_report.kind = "report"

\* C15: the render mode follows the number of platforms with data: with
\* none the page has the 'no data' banner and neither chart sections nor
\* chart scripts; with exactly one it has neither banner nor charts; with
\* two or more it has no banner and exactly the three bar charts (success
\* rate, average latency, tokens per second), each data array holding one
\* entry per platform in the order of the labels.
C15_RenderMode ==
    Rendered =>
        LET n == Len(platforms_data)
            h == html_report
        IN  /\ h.error_message <=> n = 0
            /\ n <= 1 => h.charts = <<>> /\ h.chart_scripts = <<>>
            /\ n >= 2 =>
                  /\ h.charts = <<"successRateChart", "latencyChart", "throughputChart">>
                  /\ h.chart_scripts = h.charts
                  /\ h.labels = [i \in 1..n |-> platforms_data[i].name]
                  /\ Len(h.success_rates) = n /\ Len(h.latencies) = n /\ Len(h.throughputs) = n
                  /\ \A i \in 1..n :
                        LET m == platforms_data[i].metrics
                        IN  /\ "success_rate" \in DOMAIN m =>
                                  h.success_rates[i] = m["success_rate"].value
                            /\ "request_latency" \in DOMAIN m =>
                                  h.latencies[i] = m["request_latency"].avg
                            /\ "tokens_per_second" \in DOMAIN m =>
                                  h.throughputs[i] = m["tokens_per_second"].avg

\* a page with charts for two platforms, one of them with a throughput
C15_Witness ==
    /\ Rendered
    /\ Len(platforms_data) = 2
    /\ Len(html_report.throughputs) = 2
    /\ "tokens_per_second" \in DOMAIN platforms_data[1].metrics
    /\ ~html_report.error_message

\* the metric a card value is read from
CardMetric(label) ==
    IF label = "Total Requests" THEN "total_requests"
    ELSE IF label = "Success Rate" THEN "success_rate"
    ELSE IF label = "Avg Latency" THEN "request_latency"
    ELSE "tokens_per_second"

\* C17: on a platform card each of the four values (Total Requests, Success
\* Rate, Avg Latency, Tokens/sec) reads N/A exactly when the metric is
\* absent from the platform's MetricsSummary; a metric that is present is
\* rendered as its value.
C17_CardValues ==
    Rendered =>
        \A i \in 1..Len(html_report.platform_cards) :
            LET card == html_report.platform_cards[i]
                m    == (CHOOSE e \in {platforms_data[j] : j \in 1..Len(platforms_data)} :
                            e.name = card.name).metrics
            IN  \A label \in DOMAIN card.values :
                    card.values[label] = NA <=> CardMetric(label) \notin DOMAIN m

\* ===================================================== Connectivity Checker
\* the longest `data` list an endpoint answers with
MaxModels == 2

\* line 63: the sample shown is drawn from models_data['data'][:5]
SampleSize == 5

\* a str, or None
Some(s) == [some |-> TRUE, s |-> s]

None == [some |-> FALSE, s |-> <<>>]

\* a variable of os.environ: unset, or set to a (possibly empty) string
Unset == [set |-> FALSE, s |-> <<>>]

SetTo(s) == [set |-> TRUE, s |-> s]

EnvNames ==
    {"GUIDELLM__OPENAI__BASE_URL", "OPENAI_API_BASE", "GUIDELLM__OPENAI__API_KEY",
     "OPENAI_API_KEY"}

\* the non-empty value each variable may carry: two spellings of a base
\* URL, two keys
EnvValue(var_name) ==
    IF var_name = "GUIDELLM__OPENAI__BASE_URL" THEN <<"g", "/", "v", "1">>
    ELSE IF var_name = "OPENAI_API_BASE" THEN <<"o", "/">>
    ELSE IF var_name = "GUIDELLM__OPENAI__API_KEY" THEN <<"g", "k">>
    ELSE <<"o", "k">>

\* lines 25-31: os.environ.get(var_name), None when unset or empty
get_env_var(env, var_name) ==
    IF ~env[var_name].set \/ env[var_name].s = <<>> THEN None
    ELSE Some(env[var_name].s)

\* bool(x) of a str or None
StrTruthy(x) == x.some /\ x.s # <<>>

\* `a or b` of lines 114-115: b is evaluated only when a is falsy
Or(a, b) == IF StrTruthy(a) THEN a ELSE b

\* s.endswith(suffix)
EndsWith(s, suffix) ==
    /\ Len(s) >= Len(suffix)
    /\ SubSeq(s, Len(s) - Len(suffix) + 1, Len(s)) = suffix

\* s.rstrip('/')
RECURSIVE RStripSlash(_)
RStripSlash(s) ==
    IF s # <<>> /\ s[Len(s)] = "/" THEN RStripSlash(SubSeq(s, 1, Len(s) - 1)) ELSE s

\* lines 37-42: the models endpoint of a base URL
ModelsUrl(url) ==
    LET u1 == IF ~EndsWith(url, <<"/">>) THEN url \o <<"/">> ELSE url
        u2 == IF ~EndsWith(u1, <<"v", "1", "/">>) THEN u1 \o <<"v", "1", "/">> ELSE u1
    IN  RStripSlash(u2) \o <<"/", "m", "o", "d", "e", "l", "s">>

\* ---- what the endpoint may do with the request
\* the elements of a `data` list: a model object with a str id, one without
\* id, one whose id is a number, and a bare string
ModelElems ==
    {[t |-> "dict", has_id |-> TRUE, id |-> VStr(<<"m">>)],
     [t |-> "dict", has_id |-> FALSE, id |-> VNone],
     [t |-> "dict", has_id |-> TRUE, id |-> VNum(7)],
     [t |-> "str", has_id |-> FALSE, id |-> VNone]}

DataLists == UNION {[1..n -> ModelElems] : n \in 0..MaxModels}

\* a response body: no JSON at all, or a JSON value of type t.  has_data is
\* what `'data' in models_data` evaluates to on a dict (a key), a list (an
\* element) or a str (a substring); data_t and data are the type and, for a
\* list, the elements of a dict's `data` entry.
Body(json, t, has_data, data_t, data) ==
    [json |-> json, t |-> t, has_data |-> has_data, data_t |-> data_t, data |-> data]

Bodies ==
    {Body(FALSE, "none", FALSE, "none", <<>>)}
        \cup {Body(TRUE, t, FALSE, "none", <<>>) : t \in {"null", "number", "dict", "list", "str"}}
        \cup {Body(TRUE, t, TRUE, "none", <<>>) : t \in {"list", "str"}}
        \cup {Body(TRUE, "dict", TRUE, t, <<>>) : t \in {"null", "str", "dict"}}
        \cup {Body(TRUE, "dict", TRUE, "list", d) : d \in DataLists}

Response(kind, status_code, body) == [kind |-> kind, status_code |-> status_code, body |-> body]

NoResponse == Response("none", 0, Body(FALSE, "none", FALSE, "none", <<>>))

\* requests.get returns a response, or raises Timeout, ConnectionError or
\* another RequestException (TooManyRedirects)
Endpoints ==
    {Response("response", 200, b) : b \in Bodies}
        \cup {Response("response", c, b) : c \in {401, 500},
                  b \in {Body(FALSE, "none", FALSE, "none", <<>>),
                         Body(TRUE, "dict", TRUE, "list",
                              <<[t |-> "dict", has_id |-> TRUE, id |-> VStr(<<"m">>)]>>)}}
        \cup {Response(k, 0, Body(FALSE, "none", FALSE, "none", <<>>)) :
                  k \in {"Timeout", "ConnectionError", "TooManyRedirects"}}

\* what a check reports: its return value, the log line it ends with, the
\* exception that left it ("none" when it returned) and the requests it sent
Outcome(ret, log, exc, sent) == [ret |-> ret, log |-> log, exc |-> exc, sent |-> sent]

\* lines 56-71: the body of a 200 response is parsed and inspected
InspectBody(body, sent) ==
    IF ~body.json
    THEN Outcome(FALSE, "Failed to parse JSON response", "none", sent)        \* line 69
    ELSE IF body.t \in {"null", "number"}
    THEN Outcome(FALSE, "Unexpected error", "none", sent)     \* `in` raises TypeError, line 83
    ELSE IF ~body.has_data
    THEN Outcome(FALSE, "Unexpected response format", "none", sent)           \* line 67
    ELSE IF body.t \in {"list", "str"}
    THEN Outcome(FALSE, "Unexpected error", "none", sent)     \* ['data'] raises TypeError
    ELSE IF body.data_t # "list"
    THEN Outcome(FALSE, "Unexpected response format", "none", sent)
    ELSE LET sample == SubSeq(body.data, 1,
                              IF Len(body.data) < SampleSize THEN Len(body.data)
                              ELSE SampleSize)
             \* model.get('id', 'unknown')
             ids    == [i \in 1..Len(sample) |->
                           IF sample[i].has_id THEN sample[i].id ELSE VStr(<<"u">>)]
         IN  IF Len(body.data) > 0 /\ \E i \in 1..Len(sample) : sample[i].t # "dict"
             THEN Outcome(FALSE, "Unexpected error", "none", sent)   \* .get: AttributeError
             ELSE IF Len(body.data) > 0 /\ \E i \in 1..Len(ids) : ids[i].t # "str"
             THEN Outcome(FALSE, "Unexpected error", "none", sent)   \* join: TypeError
             ELSE Outcome(TRUE, "Found models", "none", sent)                 \* line 65

\* lines 33-85
test_simple_api_connection(url, key, endpoint) ==
    IF ~url.some \/ ~key.some
    THEN \* None.endswith (line 37) or None[:10] (line 50) raises before the
         \* request is made; line 83 catches it
         Outcome(FALSE, "Unexpected error", "none", <<>>)
    ELSE LET sent == <<ModelsUrl(url.s)>>
         IN  IF endpoint.kind = "Timeout"
             THEN Outcome(FALSE, "Connection timeout", "none", sent)
             ELSE IF endpoint.kind = "ConnectionError"
             THEN Outcome(FALSE, "Connection error", "none", sent)
             ELSE IF endpoint.kind # "response"
             THEN Outcome(FALSE, "Unexpected error", "none", sent)
             ELSE IF endpoint.status_code = 200
             THEN InspectBody(endpoint.body, sent)
             ELSE Outcome(FALSE, "API request failed", "none", sent)

\* what `import guidellm` and `from guidellm.config import get_environment;
\* get_environment()` may do: succeed, raise ImportError, or raise another
\* exception from the module's top-level code
ImportResults == {"ok", "ImportError", "Exception"}

\* lines 87-95: only ImportError is caught
test_guidellm_import(result) ==
    IF result = "ok" THEN Outcome(TRUE, "imported", "none", <<>>)
    ELSE IF result = "ImportError" THEN Outcome(FALSE, "Failed to import", "none", <<>>)
    ELSE Outcome(FALSE, "", result, <<>>)

\* lines 97-107: every Exception is caught
test_guidellm_configuration(result) ==
    IF result = "ok" THEN Outcome(TRUE, "configuration loaded", "none", <<>>)
    ELSE Outcome(FALSE, "configuration error", "none", <<>>)

\* line 117 with the key left out of the test
MissingBaseOnly(url, key) == ~StrTruthy(url)

\* line 117: not base_url or not api_key
Missing(url, key) == ~StrTruthy(url) \/ ~StrTruthy(key)

\* a check that ran: its name and what it returned
Ran(name, o) == [name |-> name, ret |-> o.ret, log |-> o.log]

\* ---- main() of verify_connection.py
\* lines 111-125: the URL and the key are resolved
VcResolve ==
    /\ vc_pc = "start"
    /\ LET url == Or(get_env_var(environ, "GUIDELLM__OPENAI__BASE_URL"),
                     get_env_var(environ, "OPENAI_API_BASE"))
           key == Or(get_env_var(environ, "GUIDELLM__OPENAI__API_KEY"),
                     get_env_var(environ, "OPENAI_API_KEY"))
       IN  /\ vc_base_url' = url
           /\ vc_api_key' = key
           /\ IF Missing(url, key)
              THEN vc_pc' = "done" /\ vc_exit' = 1
              ELSE vc_pc' = "test1" /\ UNCHANGED vc_exit
    /\ UNCHANGED <<environ, success_count, vc_ran, vc_requests, vc_response>>
    /\ UNCHANGED vc_rest

\* lines 127-130
VcTest1 ==
    /\ vc_pc = "test1"
    /\ \E endpoint \in Endpoints :
          LET o == test_simple_api_connection(vc_base_url, vc_api_key, endpoint)
          IN  /\ vc_requests' = vc_requests \o o.sent
              /\ vc_response' = IF o.sent = <<>> THEN vc_response ELSE endpoint
              /\ vc_ran' = Append(vc_ran, Ran("reachability", o))
              /\ success_count' = IF o.ret THEN success_count + 1 ELSE success_count
    /\ vc_pc' = "test2"
    /\ UNCHANGED <<environ, vc_base_url, vc_api_key, vc_exit>>
    /\ UNCHANGED vc_rest

\* lines 132-135; an exception that leaves the check leaves main() too and
\* the interpreter exits with status 1
VcTest2 ==
    /\ vc_pc = "test2"
    /\ \E result \in ImportResults :
          LET o == test_guidellm_import(result)
          IN  IF o.exc # "none"
              THEN /\ vc_pc' = "raised"
                   /\ vc_exit' = 1
                   /\ vc_ran' = Append(vc_ran, Ran("import", o))
                   /\ UNCHANGED success_count
              ELSE /\ vc_pc' = "test3"
                   /\ vc_ran' = Append(vc_ran, Ran("import", o))
                   /\ success_count' = IF o.ret THEN success_count + 1 ELSE success_count
                   /\ UNCHANGED vc_exit
    /\ UNCHANGED <<environ, vc_base_url, vc_api_key, vc_requests, vc_response>>
    /\ UNCHANGED vc_rest

\* lines 137-140
VcTest3 ==
    /\ vc_pc = "test3"
    /\ \E result \in ImportResults :
          LET o == test_guidellm_configuration(result)
          IN  /\ vc_ran' = Append(vc_ran, Ran("configuration", o))
              /\ success_count' = IF o.ret THEN success_count + 1 ELSE success_count
    /\ vc_pc' = "summary"
    /\ UNCHANGED <<environ, vc_base_url, vc_api_key, vc_requests, vc_response, vc_exit>>
    /\ UNCHANGED vc_rest

\* lines 142-153, total_tests = 3
VcSummary ==
    /\ vc_pc = "summary"
    /\ vc_exit' = IF success_count = 3 THEN 0 ELSE 1
    /\ vc_pc' = "done"
    /\ UNCHANGED <<environ, vc_base_url, vc_api_key, success_count, vc_ran, vc_requests,
                   vc_response>>
    /\ UNCHANGED vc_rest

VcInit ==
    /\ environ \in {e \in [EnvNames -> {Unset, SetTo(<<>>)} \cup {SetTo(EnvValue(n)) : n \in EnvNames}] :
                         \A n \in EnvNames : e[n].s \in {<<>>, EnvValue(n)}}
    /\ vc_pc = "start"
    /\ vc_base_url = None
    /\ vc_api_key = None
    /\ success_count = 0
    /\ vc_ran = <<>>
    /\ vc_requests = <<>>
    /\ vc_response = NoResponse
    /\ vc_exit = -1
    /\ IxIdle
    /\ CmpIdle
    /\ EmIdle
    /\ PaIdle

VcNext == VcResolve \/ VcTest1 \/ VcTest2 \/ VcTest3 \/ VcSummary

SpecVerify == VcInit /\ [][VcNext]_vars

\* ---------------------------------------------- Connectivity Checker: claims

\* the variable is absent or empty
NoValue(var_name) == ~environ[var_name].set \/ environ[var_name].s = <<>>

\* no base URL, or no API key, can be resolved
Unresolvable ==
    \/ NoValue("GUIDELLM__OPENAI__BASE_URL") /\ NoValue("OPENAI_API_BASE")
    \/ NoValue("GUIDELLM__OPENAI__API_KEY") /\ NoValue("OPENAI_API_KEY")

\* the names of the checks executed, in order
RanNames == [i \in 1..Len(vc_ran) |-> vc_ran[i].name]

\* C11: when no base URL or no API key can be resolved (both variables
\* absent or empty), main() returns 1, no request is issued and none of the
\* three checks is executed.
C11_EarlyExit ==
    (vc_pc # "idle" /\ Unresolvable) =>
        /\ vc_requests = <<>>
        /\ vc_ran = <<>>
        /\ vc_pc \in {"start", "done"}
        /\ vc_pc = "done" => vc_exit = 1

\* a run that ended 1 with a base URL at hand and no key: one key variable
\* unset, the other empty
C11_Witness ==
    /\ vc_pc = "done"
    /\ vc_exit = 1
    /\ vc_base_url = Some(EnvValue("OPENAI_API_BASE"))
    /\ ~environ["GUIDELLM__OPENAI__API_KEY"].set
    /\ environ["OPENAI_API_KEY"] = SetTo(<<>>)
    /\ vc_ran = <<>>

\* C12: with base URL and API key resolved, each of the three checks is
\* executed exactly once, in the order reachability, import, configuration,
\* whatever the earlier checks returned, and the exit status is 0 exactly
\* when all three succeeded and 1 when at least one failed.
C12_Tally ==
    (vc_pc \in {"done", "raised"} /\ ~Unresolvable) =>
        /\ RanNames = <<"reachability", "import", "configuration">>
        /\ vc_exit = 0 <=> \A i \in 1..Len(vc_ran) : vc_ran[i].ret
        /\ vc_exit = 1 <=> \E i \in 1..Len(vc_ran) : ~vc_ran[i].ret

\* the answer is a 200 whose JSON body is an object with a list under `data`
ListsModels(r) ==
    /\ r.kind = "response"
    /\ r.status_code = 200
    /\ r.body.json
    /\ r.body.t = "dict"
    /\ r.body.has_data
    /\ r.body.data_t = "list"

\* C13: test_simple_api_connection returns True for every 200 response
\* whose JSON body has a list under `data`, whatever the elements of the
\* list, and returns False, without raising, for every other answer.
C13_Reachability ==
    (Len(vc_ran) >= 1 /\ vc_requests # <<>>) =>
        vc_ran[1].ret = ListsModels(vc_response)

\* ====================================================== Authorization Patch
\* calls of process_startup followed in one run
MaxCalls == 2

\* the values OPENAI_API_KEY may have: unset, empty, or one of two keys
PatchKeys == {Unset, SetTo(<<>>), SetTo(<<"k", "1">>), SetTo(<<"k", "2">>)}

\* a str taken as a dict entry of os.environ: os.environ.get(name)
EnvironGet(v) == IF v.set THEN Some(v.s) ELSE None

\* httpx.Headers: header name (compared without case) -> value
NoHeaders == [n \in {} |-> <<>>]

\* line 18: f"Bearer {api_key}"
Bearer(key) == <<"B", "e", "a", "r", "e", "r", " ">> \o key

\* headers[name] = value
SetHeader(headers, name, value) ==
    [n \in DOMAIN headers \cup {name} |-> IF n = name THEN value ELSE headers[n]]

\* the headers of the client guidellm's own process_startup builds: none,
\* a user agent, or an Authorization header from guidellm's own settings
OriginalHeaders ==
    {NoHeaders,
     [n \in {"user-agent"} |-> <<"g">>],
     [n \in {"authorization"} |-> Bearer(<<"l", "i", "b">>)]}

\* lines 5-26: the module body stores the original method and rebinds the
\* class attribute
PaImport ==
    /\ process_startup = "original"
    /\ pa_pc \in {"ready", "original"}
    /\ process_startup' = "patched"
    /\ pa_key_at_import' = pa_key
    /\ UNCHANGED <<pa_key, pa_pc, pa_headers, pa_after_original, pa_calls>>
    /\ UNCHANGED pa_rest

\* the environment: OPENAI_API_KEY is set, changed or unset
PaSetEnv ==
    /\ pa_pc # "idle"
    /\ \E k \in PatchKeys : k # pa_key /\ pa_key' = k
    /\ UNCHANGED <<process_startup, pa_key_at_import, pa_pc, pa_headers, pa_after_original,
                   pa_calls>>
    /\ UNCHANGED pa_rest

\* backend.process_startup() is called: the attribute is looked up on the
\* class; line 13 of the wrapper awaits the original
PaCall ==
    /\ pa_pc = "ready"
    /\ pa_calls < MaxCalls
    /\ pa_pc' = IF process_startup = "patched" THEN "wrapped" ELSE "original"
    /\ UNCHANGED <<process_startup, pa_key, pa_key_at_import, pa_headers, pa_after_original,
                   pa_calls>>
    /\ UNCHANGED pa_rest

\* guidellm's process_startup completes: it builds the client
PaOriginalReturns ==
    /\ pa_pc \in {"original", "wrapped"}
    /\ \E h \in OriginalHeaders : pa_headers' = h /\ pa_after_original' = h
    /\ IF pa_pc = "wrapped"
       THEN pa_pc' = "after_original" /\ UNCHANGED pa_calls
       ELSE pa_pc' = "ready" /\ pa_calls' = pa_calls + 1
    /\ UNCHANGED <<process_startup, pa_key, pa_key_at_import>>
    /\ UNCHANGED pa_rest

\* guidellm's process_startup raises: the exception leaves the wrapper at
\* line 13
PaOriginalRaises ==
    /\ pa_pc \in {"original", "wrapped"}
    /\ pa_pc' = "ready"
    /\ pa_calls' = pa_calls + 1
    /\ UNCHANGED <<process_startup, pa_key, pa_key_at_import, pa_headers, pa_after_original>>
    /\ UNCHANGED pa_rest

\* lines 16-21 with the key read when the module was imported
PaInjectImportKey ==
    /\ pa_pc = "after_original"
    /\ LET api_key == EnvironGet(pa_key_at_import)
       IN  pa_headers' = IF StrTruthy(api_key)
                         THEN SetHeader(pa_headers, "authorization", Bearer(api_key.s))
                         ELSE pa_headers
    /\ pa_pc' = "ready"
    /\ pa_calls' = pa_calls + 1
    /\ UNCHANGED <<process_startup, pa_key, pa_key_at_import, pa_after_original>>
    /\ UNCHANGED pa_rest

\* lines 16-21: the key is read and, when truthy, written to the header
PaInject ==
    /\ pa_pc = "after_original"
    /\ LET api_key == EnvironGet(pa_key)
       IN  pa_headers' = IF StrTruthy(api_key)
                         THEN SetHeader(pa_headers, "authorization", Bearer(api_key.s))
                         ELSE pa_headers
    /\ pa_pc' = "ready"
    /\ pa_calls' = pa_calls + 1
    /\ UNCHANGED <<process_startup, pa_key, pa_key_at_import, pa_after_original>>
    /\ UNCHANGED pa_rest

PaInit ==
    /\ process_startup = "original"
    /\ pa_key \in PatchKeys
    /\ pa_key_at_import = Unset
    /\ pa_pc = "ready"
    /\ pa_headers = NoHeaders
    /\ pa_after_original = NoHeaders
    /\ pa_calls = 0
    /\ IxIdle
    /\ CmpIdle
    /\ EmIdle
    /\ VcIdle

PaNext == PaImport \/ PaSetEnv \/ PaCall \/ PaOriginalReturns \/ PaOriginalRaises \/ PaInject

SpecPatch == PaInit /\ [][PaNext]_vars

\* ------------------------------------------------ Authorization Patch: claims

\* the step that ends a call of the patched process_startup
WrapperReturns == pa_pc = "after_original" /\ pa_pc' = "ready"

\* the wrapper changes the headers only once the original startup has
\* returned; before that they change only by the original startup
OriginalFirst ==
    pa_headers' # pa_headers =>
        \/ pa_pc \in {"original", "wrapped"} /\ pa_headers' = pa_after_original'
        \/ pa_pc = "after_original"

\* C14 (as stated): every call of the patched process_startup first runs the
\* original startup to completion and only then, if OPENAI_API_KEY is set in
\* the environment at that time, sets the Authorization header to
\* 'Bearer <key>'; when the key is absent the headers are left unchanged.
C14_PatchedStartup ==
    [][/\ OriginalFirst
       /\ WrapperReturns =>
             IF pa_key.set
             THEN pa_headers' = SetHeader(pa_after_original, "authorization", Bearer(pa_key.s))
             ELSE pa_headers' = pa_after_original]_vars

\* C14 (amended): every call of the patched process_startup first runs the
\* original startup to completion and only then, if OPENAI_API_KEY is set to a
\* non-empty value when it is read (after the original startup has returned,
\* not at import time), sets the Authorization header to 'Bearer <key>';
\* when the key is unset or empty the headers the original startup left are
\* not changed.
C14_PatchedStartupAmended ==
    [][/\ OriginalFirst
       /\ WrapperReturns =>
             IF pa_key.set /\ pa_key.s # <<>>
             THEN pa_headers' = SetHeader(pa_after_original, "authorization", Bearer(pa_key.s))
             ELSE pa_headers' = pa_after_original]_vars

\* two wrapped calls are over, the key was k1 when the patch was imported and
\* the header now carries k2
C14_Witness ==
    /\ process_startup = "patched"
    /\ pa_pc = "ready"
    /\ pa_calls = 2
    /\ pa_key_at_import = SetTo(<<"k", "1">>)
    /\ pa_key = SetTo(<<"k", "2">>)
    /\ pa_headers = [n \in {"authorization"} |-> Bearer(<<"k", "2">>)]
    /\ pa_after_original = [n \in {"authorization"} |-> Bearer(<<"l", "i", "b">>)]

====
